---- MODULE Spec2Model ----
(***************************************************************************)
(* Model of src/components/InteractiveAvatar.tsx: the chunker              *)
(* (splitIntoChunks), the chunked playback loop (speakRemainingChunks)     *)
(* with its start / interrupt / resume / edit handlers, and the session    *)
(* start (startSessionV2).                                                 *)
(*                                                                         *)
(* React semantics that the model keeps:                                   *)
(*  - useState values (chunks, isSpeaking, isInterrupted, resumeRequested) *)
(*    are constants of one render.  A handler wrapped in useMemoizedFn     *)
(*    runs the closure of the latest render; speakRemainingChunks is a     *)
(*    plain closure, so one invocation of it keeps reading the values of   *)
(*    the render it was created in for as long as it runs.                 *)
(*  - chunkIndexRef is a ref: one mutable cell shared by every closure.    *)
(*  - state updates made in one handler or one continuation are batched;   *)
(*    the component has re-rendered before the next event is handled.      *)
(* A text is a sequence of one-character strings.  The invocations of      *)
(* speakRemainingChunks that exist are a bag of records: two invocations   *)
(* with equal records are interchangeable.                                 *)
(***************************************************************************)
EXTENDS Integers, Sequences, FiniteSets, Bags, TLC

VARIABLES
    userContent,      \* useState("")       line 67: the text of the input field
    chunks,           \* useState([])       line 68: the stored chunk sequence
    chunkIndex,       \* useRef(0)          line 69: chunkIndexRef.current
    isSpeaking,       \* useState(false)    line 71
    isInterrupted,    \* useState(false)    line 72
    resumeRequested,  \* useState(false)    line 73
    loops,            \* the invocations of speakRemainingChunks, lines 77-89
    sessions,         \* the invocations of startSessionV2, lines 91-112
    last              \* the request handled last, whether it was accepted, and
                      \* the calls it made to the interrupt and text-chat hooks

vars == <<userContent, chunks, chunkIndex, isSpeaking, isInterrupted,
          resumeRequested, loops, sessions, last>>

(* ---------------------------- bounds ----------------------------------- *)

\* playback loops that may be running at the same time
MaxLoops == 2

\* invocations of startSessionV2
MaxSessions == 2

\* words of the longest utterance pasted into the input
MaxWords == 17

\* characters typed one at a time in SpecChunker
MaxTextLen == 17

(* ---------------------------- chunker ---------------------------------- *)

\* words.slice(i, i + 8), i += 8
ChunkSize == 8

Space == " "

\* the characters \s matches, within the model's alphabet
IsSpace(c) == c = Space

Min(a, b) == IF a < b THEN a ELSE b

RECURSIVE SkipSpaces(_, _)
\* first position at or after i that holds no whitespace (Len + 1 if none)
SkipSpaces(text, i) ==
    IF i <= Len(text) /\ IsSpace(text[i]) THEN SkipSpaces(text, i + 1) ELSE i

RECURSIVE SplitFrom(_, _, _, _)
\* text.split(/\s+/): every maximal whitespace run is one separator; the
\* piece before the first separator and the piece after the last one are
\* kept even when they are empty
SplitFrom(text, i, cur, acc) ==
    IF i > Len(text) THEN Append(acc, cur)
    ELSE IF IsSpace(text[i])
         THEN SplitFrom(text, SkipSpaces(text, i), <<>>, Append(acc, cur))
         ELSE SplitFrom(text, i + 1, Append(cur, text[i]), acc)

Split(text) == SplitFrom(text, 1, <<>>, <<>>)

RECURSIVE Join(_, _)
\* words.join(sep)
Join(words, sep) ==
    IF Len(words) = 0 THEN <<>>
    ELSE IF Len(words) = 1 THEN words[1]
    ELSE words[1] \o sep \o Join(Tail(words), sep)

\* words.slice(from, to), 0-based, end exclusive
Slice(words, from, to) == SubSeq(words, from + 1, Min(to, Len(words)))

RECURSIVE ChunkFrom(_, _, _)
\* for (let i = 0; i < words.length; i += 8) chunks.push(...)
ChunkFrom(words, i, acc) ==
    IF i < Len(words)
    THEN ChunkFrom(words, i + ChunkSize,
                   Append(acc, Join(Slice(words, i, i + ChunkSize), <<Space>>)))
    ELSE acc

splitIntoChunks(text) == ChunkFrom(Split(text), 0, <<>>)

(* ---------------------------- inputs ----------------------------------- *)

\* n words "a" separated by single spaces
Words(n) == Join([i \in 1..n |-> <<"a">>], <<Space>>)

\* the texts the input field is set to in Spec: empty, whitespace only,
\* and MaxWords words
Utterances == { <<>>, <<Space>>, Words(MaxWords) }

\* the characters typed in SpecChunker
Alphabet == {Space, "a"}

\* the bodies the token endpoint answers with
Bodies == {"", "body"}

(* ---------------------------- playback state --------------------------- *)

\* what is recorded of the handler that ran last: op is "start", "interrupt",
\* "resume" or "edit" for a user request, "env" for a step of a callback or
\* continuation; calls are its calls of interrupt() and sendMessage()
Handled(op, accepted, calls) == [op |-> op, accepted |-> accepted, calls |-> calls]

\* an invocation of speakRemainingChunks.  pc, chunks, isInterrupted,
\* resumeRequested and k are the invocation's own: its position, the render
\* values its closure captured and the index of the chunk it passed to the
\* speak call in flight.  origin, from, quiet, spoken and intr record its
\* history: the handler that made it, the index it was entered with, whether
\* no user request was accepted since, the indexes of the chunks it has
\* passed to speak calls since, and whether an interrupt was accepted while
\* its speak call was in flight ("inflight") and that call has since
\* resolved ("after").
Invocation(pc, cchunks, cint, cres, k, origin, from) ==
    [pc |-> pc, chunks |-> cchunks, isInterrupted |-> cint,
     resumeRequested |-> cres, k |-> k, origin |-> origin, from |-> from,
     quiet |-> TRUE, spoken |-> IF pc = "speaking" THEN <<k>> ELSE <<>>,
     intr |-> "none"]

\* the invocation has not returned or thrown
Active(r) == r.pc \in {"speaking", "delay"}

\* a speak call (repeatMessage) of the invocation is unresolved
InFlight(r) == r.pc = "speaking"

Running == {r \in DOMAIN loops : Active(r)}

\* number of copies, in bag b, of the records of set S
Copies(b, S) == BagCardinality([r \in S |-> b[r]])

ActiveCount == Copies(loops, Running)

InFlightCount == Copies(loops, {r \in DOMAIN loops : InFlight(r)})

Put(b, r) == b (+) SetToBag({r})

Replace(b, r, q) == Put(b (-) SetToBag({r}), q)

\* the argument of the speak call in flight: const chunk = chunks[index]
ChunkOf(r) == r.chunks[r.k + 1]

\* the index left where it was when the speak call resolves
NextIndexStays(i) == i

\* the index advanced past the next chunk
NextIndexSkips(i) == i + 2

\* chunkIndexRef.current++
NextIndex(i) == i + 1

\* the loop head: while (index < chunks.length) { if (isInterrupted &&
\* !resumeRequested) break; ... }, over the values the closure captured
Continues(index, cchunks, cint, cres) ==
    index < Len(cchunks) /\ ~(cint /\ ~cres)

\* an accepted user request ends the undisturbed stretch of every invocation
Quieted(r) ==
    [r EXCEPT !.origin = "none", !.from = 0, !.quiet = FALSE,
              !.spoken = <<>>, !.intr = "none"]

\* the record left by an invocation that returned ("done") or threw
\* ("failed"); only an undisturbed one keeps its history
Ended(r, pc) ==
    IF r.quiet THEN [r EXCEPT !.pc = pc]
    ELSE [Quieted(r) EXCEPT !.pc = pc, !.chunks = <<>>, !.isInterrupted = FALSE,
                            !.resumeRequested = FALSE, !.k = 0]

\* a running invocation after an accepted user request; an interrupt marks
\* the ones whose speak call is in flight
After(r, interrupt) ==
    IF interrupt /\ InFlight(r)
    THEN [Quieted(r) EXCEPT !.intr = "inflight"]
    ELSE Quieted(r)

\* the running invocations after an accepted user request; the records of
\* invocations that ended are dropped
Disturbed(interrupt) ==
    [t \in {After(r, interrupt) : r \in Running} |->
        Copies(loops, {r \in Running : After(r, interrupt) = t})]

\* an invocation of speakRemainingChunks from the closure of the current
\* render, run up to its first await (or to its return), entered with the
\* ref at index
Invoke(index, origin) ==
    Invocation(IF Continues(index, chunks, isInterrupted, resumeRequested)
               THEN "speaking" ELSE "done",
               chunks, isInterrupted, resumeRequested,
               IF Continues(index, chunks, isInterrupted, resumeRequested)
               THEN index ELSE 0,
               origin, index)

(* ---------------------------- session state ---------------------------- *)

SessionIds == 1..MaxSessions

\* an invocation of startSessionV2 that was not made yet
IdleSession ==
    [pc |-> "idle", isVoiceChat |-> FALSE, fetch |-> "none", body |-> "none",
     token |-> "",
     fetches |-> 0, inited |-> FALSE, startCalled |-> FALSE,
     voiceCalled |-> FALSE, logged |-> FALSE, outcome |-> "none"]

\* avatar.on(AVATAR_START_TALKING / AVATAR_STOP_TALKING) was reached
Listening == \E s \in SessionIds : sessions[s].inited

Init ==
    /\ userContent = <<>>
    /\ chunks = <<>>
    /\ chunkIndex = 0
    /\ isSpeaking = FALSE
    /\ isInterrupted = FALSE
    /\ resumeRequested = FALSE
    /\ loops = EmptyBag
    /\ sessions = [s \in SessionIds |-> IdleSession]
    /\ last = Handled("init", TRUE, <<>>)

(* ---------------------------- handlers --------------------------------- *)

\* onChange of the input field, with the new value of the field
\* the interrupted flag left as it was
EditFlagsKeepInterrupted ==
    [isInterrupted |-> isInterrupted, resumeRequested |-> FALSE]

\* setIsInterrupted(false); setResumeRequested(false);
EditFlags == [isInterrupted |-> FALSE, resumeRequested |-> FALSE]

EditTo(input) ==
    /\ input # userContent
    /\ userContent' = input
    /\ chunks' = splitIntoChunks(input)
    /\ chunkIndex' = 0
    /\ isInterrupted' = EditFlags.isInterrupted
    /\ resumeRequested' = EditFlags.resumeRequested
    /\ loops' = Disturbed(FALSE)
    /\ last' = Handled("edit", TRUE, <<>>)
    /\ UNCHANGED <<isSpeaking, sessions>>

Edit == \E input \in Utterances : EditTo(input)

\* if (!chunks.length || isSpeaking) return;
StartAllowed == Len(chunks) # 0 /\ ~isSpeaking

\* setIsInterrupted(false); setResumeRequested(false);
StartFlags == [isInterrupted |-> FALSE, resumeRequested |-> FALSE]

\* chunkIndexRef.current = 0;
StartIndex == 0

\* the value resumeRequested has after a handler that set it to v and then
\* called speakRemainingChunks, entered at index: the invocation's own
\* setResumeRequested(false) is in the same batch when it returns at once
AfterCall(v, index) ==
    IF Continues(index, chunks, isInterrupted, resumeRequested) THEN v ELSE FALSE

startSpeaking ==
    IF StartAllowed
    THEN /\ ActiveCount < MaxLoops
         /\ isInterrupted' = StartFlags.isInterrupted
         /\ resumeRequested' = AfterCall(StartFlags.resumeRequested, StartIndex)
         /\ chunkIndex' = StartIndex
         /\ isSpeaking' = (InFlight(Invoke(StartIndex, "start")) \/ isSpeaking)
         /\ loops' = Put(Disturbed(FALSE), Invoke(StartIndex, "start"))
         /\ last' = Handled("start", TRUE, <<>>)
         /\ UNCHANGED <<userContent, chunks, sessions>>
    ELSE /\ last' = Handled("start", FALSE, <<>>)
         /\ UNCHANGED <<userContent, chunks, chunkIndex, isSpeaking,
                        isInterrupted, resumeRequested, loops, sessions>>

\* the guard left out
InterruptAlwaysAllowed == TRUE

\* if (!isSpeaking) return;
InterruptAllowed == isSpeaking

\* setIsInterrupted(true) with setResumeRequested(true) in place of (false)
InterruptFlagsKeepResume == [isInterrupted |-> TRUE, resumeRequested |-> TRUE]

\* setIsInterrupted(true); setResumeRequested(false);
InterruptFlags == [isInterrupted |-> TRUE, resumeRequested |-> FALSE]

\* onClick={() => handleInterrupt("User interruption!")}
InterruptMessage == "User interruption!"

\* interrupt(); sendMessage(userInput);
InterruptCalls ==
    << [fn |-> "interrupt"], [fn |-> "sendMessage", arg |-> InterruptMessage] >>

handleInterrupt ==
    IF InterruptAllowed
    THEN /\ isInterrupted' = InterruptFlags.isInterrupted
         /\ resumeRequested' = InterruptFlags.resumeRequested
         /\ loops' = Disturbed(TRUE)
         /\ last' = Handled("interrupt", TRUE, InterruptCalls)
         /\ UNCHANGED <<userContent, chunks, chunkIndex, isSpeaking, sessions>>
    ELSE /\ last' = Handled("interrupt", FALSE, <<>>)
         /\ UNCHANGED <<userContent, chunks, chunkIndex, isSpeaking,
                        isInterrupted, resumeRequested, loops, sessions>>

\* the guard without its test of the index
ResumeAllowedAnyIndex == isInterrupted /\ ~isSpeaking

\* if (!isInterrupted || isSpeaking || index >= chunks.length) return;
ResumeAllowed == isInterrupted /\ ~isSpeaking /\ chunkIndex < Len(chunks)

\* setResumeRequested(true); setIsInterrupted(false);
ResumeFlags == [isInterrupted |-> FALSE, resumeRequested |-> TRUE]

\* the ref reset before the loop is called, as startSpeaking does
ResumeIndexReset == StartIndex

\* the index speakRemainingChunks is entered with: the ref is not written
ResumeIndex == chunkIndex

resumeSpeaking ==
    IF ResumeAllowed
    THEN /\ ActiveCount < MaxLoops
         /\ isInterrupted' = ResumeFlags.isInterrupted
         /\ resumeRequested' = AfterCall(ResumeFlags.resumeRequested, ResumeIndex)
         /\ chunkIndex' = ResumeIndex
         /\ isSpeaking' = (InFlight(Invoke(ResumeIndex, "resume")) \/ isSpeaking)
         /\ loops' = Put(Disturbed(FALSE), Invoke(ResumeIndex, "resume"))
         /\ last' = Handled("resume", TRUE, <<>>)
         /\ UNCHANGED <<userContent, chunks, sessions>>
    ELSE /\ last' = Handled("resume", FALSE, <<>>)
         /\ UNCHANGED <<userContent, chunks, chunkIndex, isSpeaking,
                        isInterrupted, resumeRequested, loops, sessions>>

(* ---------------------------- the playback loop ------------------------ *)

Env == Handled("env", TRUE, <<>>)

\* await repeatMessage(chunk) resolves: setIsSpeaking(false); index++;
\* update(); then the 1-second timer is awaited
SpeakResolve(r) ==
    /\ InFlight(r)
    /\ isSpeaking' = FALSE
    /\ chunkIndex' = NextIndex(chunkIndex)
    /\ loops' = Replace(loops, r,
                    [r EXCEPT !.pc = "delay",
                              !.intr = IF @ = "inflight" THEN "after" ELSE @])
    /\ last' = Env
    /\ UNCHANGED <<userContent, chunks, isInterrupted, resumeRequested, sessions>>

\* await repeatMessage(chunk) rejects: nothing catches it, the invocation
\* ends there
SpeakReject(r) ==
    /\ InFlight(r)
    /\ loops' = Replace(loops, r, Ended(r, "failed"))
    /\ last' = Env
    /\ UNCHANGED <<userContent, chunks, chunkIndex, isSpeaking, isInterrupted,
                   resumeRequested, sessions>>

\* the timer fires: back to the loop head, up to the next await or the return
DelayElapsed(r) ==
    /\ r.pc = "delay"
    /\ IF Continues(chunkIndex, r.chunks, r.isInterrupted, r.resumeRequested)
       THEN /\ isSpeaking' = TRUE
            /\ loops' = Replace(loops, r,
                            [r EXCEPT !.pc = "speaking", !.k = chunkIndex,
                                      !.spoken = IF r.quiet
                                                 THEN Append(@, chunkIndex)
                                                 ELSE @])
            /\ UNCHANGED resumeRequested
       ELSE /\ resumeRequested' = FALSE
            /\ loops' = Replace(loops, r, Ended(r, "done"))
            /\ UNCHANGED isSpeaking
    /\ last' = Env
    /\ UNCHANGED <<userContent, chunks, chunkIndex, isInterrupted, sessions>>

PlaybackNext ==
    \/ Edit
    \/ startSpeaking
    \/ handleInterrupt
    \/ resumeSpeaking
    \/ \E r \in DOMAIN loops : SpeakResolve(r)
    \/ \E r \in DOMAIN loops : SpeakReject(r)
    \/ \E r \in DOMAIN loops : DelayElapsed(r)

(* ---------------------------- SDK events ------------------------------- *)

\* avatar.on(AVATAR_START_TALKING, () => setIsSpeaking(true))
AvatarStartTalking ==
    /\ Listening
    /\ isSpeaking' = TRUE
    /\ last' = Env
    /\ UNCHANGED <<userContent, chunks, chunkIndex, isInterrupted,
                   resumeRequested, loops, sessions>>

\* avatar.on(AVATAR_STOP_TALKING, () => setIsSpeaking(false))
AvatarStopTalking ==
    /\ Listening
    /\ isSpeaking' = FALSE
    /\ last' = Env
    /\ UNCHANGED <<userContent, chunks, chunkIndex, isInterrupted,
                   resumeRequested, loops, sessions>>

SdkNext == AvatarStartTalking \/ AvatarStopTalking

(* ---------------------------- startSessionV2 --------------------------- *)

pvars == <<userContent, chunks, chunkIndex, isSpeaking, isInterrupted,
           resumeRequested, loops>>

\* catch (error) { console.error(...) }: the invocation ends, its promise
\* is fulfilled
Caught(rec) ==
    [rec EXCEPT !.pc = "done", !.logged = TRUE, !.outcome = "fulfilled"]

\* Start Voice Chat / Start Text Chat: the invocation runs up to await fetch
startSessionV2(s, isVoiceChat) ==
    /\ sessions[s].pc = "idle"
    /\ \A t \in SessionIds : t < s => sessions[t].pc # "idle"
    /\ sessions' = [sessions EXCEPT ![s] =
                        [@ EXCEPT !.pc = "fetch", !.isVoiceChat = isVoiceChat,
                                  !.fetches = @ + 1, !.outcome = "pending"]]
    /\ last' = Env
    /\ UNCHANGED pvars

\* await fetch(...) resolves with a response, of a 2xx status (ok) or not;
\* response.text() is called
FetchResolve(s, ok) ==
    /\ sessions[s].pc = "fetch"
    /\ sessions' = [sessions EXCEPT ![s] =
                        [@ EXCEPT !.pc = "text",
                                  !.fetch = IF ok THEN "ok" ELSE "bad"]]
    /\ last' = Env
    /\ UNCHANGED pvars

\* await fetch(...) rejects (network error)
FetchReject(s) ==
    /\ sessions[s].pc = "fetch"
    /\ sessions' = [sessions EXCEPT ![s] = Caught([@ EXCEPT !.fetch = "threw"])]
    /\ last' = Env
    /\ UNCHANGED pvars

\* what response.text() gave
Kind(body) == IF body = "" THEN "empty" ELSE "nonempty"

\* the token check left out
TokenNeverMissing(token) == FALSE

\* if (!token) throw new Error("No access token");
TokenMissing(token) == token = ""

\* await response.text() resolves with the body: the token check, then
\* initAvatar(token), the two avatar.on(...) and the call of startAvatar
TextResolve(s, body) ==
    /\ sessions[s].pc = "text"
    /\ sessions' = [sessions EXCEPT ![s] =
                        IF TokenMissing(body)
                        THEN Caught([@ EXCEPT !.body = Kind(body)])
                        ELSE [@ EXCEPT !.pc = "startAvatar",
                                       !.body = Kind(body), !.token = body,
                                       !.inited = TRUE, !.startCalled = TRUE]]
    /\ last' = Env
    /\ UNCHANGED pvars

\* await response.text() rejects
TextReject(s) ==
    /\ sessions[s].pc = "text"
    /\ sessions' = [sessions EXCEPT ![s] = Caught([@ EXCEPT !.body = "threw"])]
    /\ last' = Env
    /\ UNCHANGED pvars

\* await startAvatar(DEFAULT_CONFIG) resolves: if (isVoiceChat) await
\* startVoiceChat()
StartAvatarResolve(s) ==
    /\ sessions[s].pc = "startAvatar"
    /\ sessions' = [sessions EXCEPT ![s] =
                        IF @.isVoiceChat
                        THEN [@ EXCEPT !.pc = "startVoiceChat",
                                       !.voiceCalled = TRUE]
                        ELSE [@ EXCEPT !.pc = "done", !.outcome = "fulfilled"]]
    /\ last' = Env
    /\ UNCHANGED pvars

StartAvatarReject(s) ==
    /\ sessions[s].pc = "startAvatar"
    /\ sessions' = [sessions EXCEPT ![s] = Caught(@)]
    /\ last' = Env
    /\ UNCHANGED pvars

StartVoiceChatResolve(s) ==
    /\ sessions[s].pc = "startVoiceChat"
    /\ sessions' = [sessions EXCEPT ![s] =
                        [@ EXCEPT !.pc = "done", !.outcome = "fulfilled"]]
    /\ last' = Env
    /\ UNCHANGED pvars

StartVoiceChatReject(s) ==
    /\ sessions[s].pc = "startVoiceChat"
    /\ sessions' = [sessions EXCEPT ![s] = Caught(@)]
    /\ last' = Env
    /\ UNCHANGED pvars

SessionNext ==
    \/ \E s \in SessionIds, v \in BOOLEAN : startSessionV2(s, v)
    \/ \E s \in SessionIds, ok \in BOOLEAN : FetchResolve(s, ok)
    \/ \E s \in SessionIds : FetchReject(s)
    \/ \E s \in SessionIds, body \in Bodies : TextResolve(s, body)
    \/ \E s \in SessionIds : TextReject(s)
    \/ \E s \in SessionIds : StartAvatarResolve(s)
    \/ \E s \in SessionIds : StartAvatarReject(s)
    \/ \E s \in SessionIds : StartVoiceChatResolve(s)
    \/ \E s \in SessionIds : StartVoiceChatReject(s)

(* ---------------------------- specifications --------------------------- *)

\* the whole component.  The session start and the playback share no state
\* but Listening (the session start registers the handlers of the SDK
\* events), so the properties of each are checked in its own specification
\* below: SpecSession from Init, SpecPlayback from the state SpecSession
\* reaches once a session start has succeeded.
Next == SessionNext \/ SdkNext \/ PlaybackNext

Spec == Init /\ [][Next]_vars

\* the session start alone: the playback controls are not touched
SpecSession == Init /\ [][SessionNext \/ SdkNext]_vars

\* the state after one text-chat session start has succeeded and nothing
\* else has happened (SpecSession reaches it)
Connected ==
    /\ userContent = <<>>
    /\ chunks = <<>>
    /\ chunkIndex = 0
    /\ isSpeaking = FALSE
    /\ isInterrupted = FALSE
    /\ resumeRequested = FALSE
    /\ loops = EmptyBag
    /\ sessions = [s \in SessionIds |->
                     IF s = 1
                     THEN [pc |-> "done", isVoiceChat |-> FALSE, fetch |-> "ok",
                           body |-> "nonempty", token |-> "body", fetches |-> 1, inited |-> TRUE,
                           startCalled |-> TRUE, voiceCalled |-> FALSE,
                           logged |-> FALSE, outcome |-> "fulfilled"]
                     ELSE IdleSession]
    /\ last = Handled("env", TRUE, <<>>)

\* the playback beside a started session: no further session start is made
SpecPlayback == Connected /\ [][PlaybackNext \/ SdkNext]_vars

\* the input field typed into, one character at a time
TypeChar ==
    /\ Len(userContent) < MaxTextLen
    /\ \E c \in Alphabet : EditTo(Append(userContent, c))

SpecChunker == Init /\ [][TypeChar]_vars

(* ---------------------------- claims ----------------------------------- *)

\* the indexes from, from + 1, ..., n - 1
IndexesFrom(from, n) ==
    IF from < n THEN [i \in 1..(n - from) |-> from + i - 1] ELSE <<>>

\* C1: a playback loop made by an accepted start request that has returned,
\* with no user request accepted since the start and no speak call failed,
\* has issued exactly one speak call per chunk of the sequence, chunk 0
\* first and in increasing order.
C1_StartSpeaksEveryChunkOnce ==
    \A r \in DOMAIN loops :
        (r.origin = "start" /\ r.quiet /\ r.pc = "done")
            => r.spoken = IndexesFrom(0, Len(r.chunks))

\* C2: at most one speak call is in flight at any time.
C2_AtMostOneSpeakInFlight == InFlightCount <= 1

\* C3: after an interrupt was accepted while an invocation's speak call was
\* in flight and that call has resolved, with no user request accepted
\* since, the invocation issues no further speak call and the interrupted
\* flag is still true.
C3_InterruptStopsAtBoundary ==
    \A r \in DOMAIN loops :
        r.intr = "after" => (~InFlight(r) /\ isInterrupted)

\* C4: a playback loop made by an accepted resume request at index i, with no
\* user request accepted since, has issued a speak call before it returns;
\* its first speak call carries chunk i, and when it has returned it has
\* spoken the chunks i .. n-1 in order.
C4_ResumeSpeaksNextChunk ==
    \A r \in DOMAIN loops :
        (r.origin = "resume" /\ r.quiet)
            => /\ r.spoken # <<>> => r.spoken[1] = r.from
               /\ r.pc = "done" => r.spoken = IndexesFrom(r.from, Len(r.chunks))

\* C5: a resume request made when the interrupted flag is false, or the
\* speaking flag is true, or the index is at or past the number of chunks,
\* is rejected and changes nothing: the index and the flags keep their
\* values, no invocation of the loop is made and no speak call is issued.
C5_RejectedResumeIsNoOp ==
    [][ (/\ last'.op = "resume"
         /\ (~isInterrupted \/ isSpeaking \/ chunkIndex >= Len(chunks)))
            => (~last'.accepted /\ UNCHANGED pvars) ]_vars

\* C5 witness: a resume request was rejected with the interrupted flag true
\* and the speaking flag false, the index having reached the end.
C5_Witness ==
    /\ last.op = "resume" /\ ~last.accepted
    /\ isInterrupted /\ ~isSpeaking
    /\ chunkIndex >= Len(chunks)

\* the records of bag b whose speak call was in flight when an interrupt was
\* accepted and is still unresolved
IntrInFlight(b) == {r \in DOMAIN b : r.intr = "inflight"}

\* C6: an invocation whose speak call was in flight when an interrupt was
\* accepted keeps that call in flight until the call settles; nothing but
\* the call's own resolution or rejection takes the invocation out of it,
\* and when the call resolves the index advances by one and the invocation
\* goes on to its delay.
C6_InterruptKeepsInFlightChunk ==
    [][ /\ \A q \in IntrInFlight(loops') : InFlight(q)
        /\ Copies(loops', IntrInFlight(loops')) < Copies(loops, IntrInFlight(loops))
            => \/ /\ last'.op \in {"edit", "start", "resume"}
                  /\ Copies(loops', {q \in DOMAIN loops' : InFlight(q)})
                        >= InFlightCount
               \/ /\ chunkIndex' = chunkIndex + 1
                  /\ \E r \in IntrInFlight(loops) :
                        loops' = Replace(loops, r,
                                    [r EXCEPT !.pc = "delay", !.intr = "after"])
               \/ \E r \in IntrInFlight(loops) :
                        loops' = Replace(loops, r, Ended(r, "failed")) ]_vars

\* C6 witness: the speak call that was in flight when the interrupt was
\* accepted has resolved, the index is past its chunk and the invocation is
\* in its delay.
C6_Witness ==
    \E r \in DOMAIN loops :
        r.intr = "after" /\ r.pc = "delay" /\ chunkIndex = r.k + 1

\* the non-empty whitespace-separated tokens of a text, in order
Tokens(text) == SelectSeq(Split(text), LAMBDA w : w # <<>>)

\* C7: every chunk stored for the utterance holds at most 8 tokens, and the
\* chunks joined with single spaces are the utterance's non-empty tokens
\* joined with single spaces.
C7_ChunksRejoinToTokens ==
    /\ \A i \in 1..Len(chunks) : Len(Tokens(chunks[i])) <= 8
    /\ Join(chunks, <<Space>>) = Join(Tokens(userContent), <<Space>>)

\* the text is empty or holds whitespace only
Blank(text) == \A i \in 1..Len(text) : IsSpace(text[i])

\* C8: while the utterance is empty or whitespace only, the stored chunk
\* sequence is empty and a start request is rejected.
C8_BlankUtteranceHasNoChunks ==
    Blank(userContent) => (Len(chunks) = 0 /\ ~StartAllowed)

\* C9: an invocation of startSessionV2 whose fetch threw or whose response
\* body was empty has ended: initAvatar, startAvatar and startVoiceChat were
\* not called, the error was logged, the promise of the invocation is
\* fulfilled (nothing propagates) and fetch was called once.
C9_TokenFailureAborts ==
    \A s \in SessionIds :
        (sessions[s].fetch = "threw" \/ sessions[s].body = "empty")
            => /\ sessions[s].pc = "done"
               /\ ~sessions[s].inited
               /\ ~sessions[s].startCalled
               /\ ~sessions[s].voiceCalled
               /\ sessions[s].logged
               /\ sessions[s].outcome = "fulfilled"
               /\ sessions[s].fetches = 1

\* C9 witness: one invocation ended on a fetch that threw, another on an
\* empty body.
C9_Witness ==
    \E s, t \in SessionIds :
        /\ sessions[s].fetch = "threw" /\ sessions[s].pc = "done"
        /\ sessions[t].body = "empty" /\ sessions[t].pc = "done"

\* C10: the session is never initialized or started by an invocation whose
\* response had a non-2xx status.
C10_Non2xxIsFailure ==
    \A s \in SessionIds :
        sessions[s].fetch = "bad"
            => (~sessions[s].inited /\ ~sessions[s].startCalled)


CallsOf(calls, fn) == SelectSeq(calls, LAMBDA c : c.fn = fn)

\* C12: an interrupt request is accepted only while the speaking flag is
\* true.  With the flag false (the inter-chunk delay included) it changes no
\* state and makes no external call; when accepted it sets interrupted to
\* true and resume-requested to false, calls interrupt() exactly once and
\* forwards the supplied message with sendMessage exactly once, and leaves
\* the chunk index unchanged
C12_InterruptOnlyWhileSpeaking ==
    [][last'.op = "interrupt" =>
          IF isSpeaking
          THEN /\ last'.accepted
               /\ isInterrupted' /\ ~resumeRequested'
               /\ Len(CallsOf(last'.calls, "interrupt")) = 1
               /\ CallsOf(last'.calls, "sendMessage")
                     = << [fn |-> "sendMessage", arg |-> "User interruption!"] >>
               /\ chunkIndex' = chunkIndex
          ELSE /\ ~last'.accepted
               /\ last'.calls = << >>
               /\ UNCHANGED pvars]_vars

\* an interrupt request was refused during the inter-chunk delay of a loop,
\* after an earlier one had been accepted
C12_Witness ==
    /\ last.op = "interrupt" /\ ~last.accepted
    /\ isInterrupted
    /\ \E r \in DOMAIN loops : r.pc = "delay"

\* C13: a start request is accepted only when the chunk sequence is
\* non-empty and the speaking flag is false, otherwise it changes no state
\* and starts no loop; when accepted it sets the chunk index to 0, clears
\* the interrupted and resume-requested flags, and the playback loop it
\* starts speaks chunk 0 first
C13_StartSpeaksChunkZero ==
    [][last'.op = "start" =>
          IF Len(chunks) # 0 /\ ~isSpeaking
          THEN /\ last'.accepted
               /\ chunkIndex' = 0
               /\ ~isInterrupted' /\ ~resumeRequested'
               /\ \E r \in DOMAIN loops' :
                     /\ r.origin = "start"
                     /\ InFlight(r)
                     /\ r.spoken = << 0 >>
          ELSE /\ ~last'.accepted
               /\ UNCHANGED pvars]_vars

\* C14: the chunk index never decreases except at the step of an accepted
\* start request or of an utterance edit, both of which set it to 0; every
\* other change of the index is an increment by exactly one, made when a
\* speak call resolves
C14_IndexResetsOrIncrements ==
    [][chunkIndex' # chunkIndex =>
          \/ /\ chunkIndex' = 0
             /\ \/ last'.op = "start" /\ last'.accepted
                \/ last'.op = "edit"
          \/ /\ chunkIndex' = chunkIndex + 1
             /\ last'.op = "env"
             /\ InFlightCount' = InFlightCount - 1]_vars

\* the index was incremented twice by resolving speak calls and a loop is
\* in its inter-chunk delay
C14_Witness ==
    /\ chunkIndex = 2
    /\ \E r \in DOMAIN loops : r.pc = "delay" /\ r.quiet /\ r.spoken = << 0, 1 >>


\* C15: with every speak call resolving and no user request accepted since
\* the loop was started, a playback loop that exits because the chunk index
\* reached the length of its chunk sequence leaves the sequencer idle:
\* speaking flag false, resume-requested flag false, no speak call in flight
C15_ExitLeavesSequencerIdle ==
    [][\A r \in DOMAIN loops :
          ( /\ r.pc = "delay" /\ r.quiet
            /\ chunkIndex >= Len(r.chunks)
            /\ last'.op = "env"
            /\ loops' = Replace(loops, r, Ended(r, "done")) )
          => /\ ~isSpeaking'
             /\ ~resumeRequested'
             /\ InFlightCount' = 0]_vars


\* C16: if a speak call fails, the playback loop that issued it ends without
\* retrying and without issuing any further speak call, the chunk index is
\* not advanced past the failed chunk, and a fresh start request can be
\* accepted after the failure (no other loop being active)
C16_FailureIsTerminalAndRetryable ==
    [][\A r \in DOMAIN loops :
          ( /\ InFlight(r)
            /\ ActiveCount = 1
            /\ last'.op = "env"
            /\ loops' = Replace(loops, r, Ended(r, "failed")) )
          => /\ chunkIndex' = chunkIndex
             /\ ActiveCount' = 0
             /\ Len(chunks') # 0 /\ ~isSpeaking']_vars

\* C17: every utterance edit replaces the chunk sequence by the Chunker's
\* output for the new text, sets the chunk index to 0 and leaves the
\* interrupted and resume-requested flags false, whatever the playback state
\* was; the speaking flag is left as it was
C17_EditResetsIndexAndFlags ==
    [][last'.op = "edit" =>
          /\ chunks' = splitIntoChunks(userContent')
          /\ chunkIndex' = 0
          /\ ~isInterrupted' /\ ~resumeRequested'
          /\ isSpeaking' = isSpeaking]_vars

\* C17 as stated: after an utterance edit the chunk sequence is the
\* Chunker's output for the new text, the chunk index is 0 and the speaking,
\* interrupted and resume-requested flags are all false
C17_EditClearsAllFlags ==
    last.op = "edit" =>
        /\ chunks = splitIntoChunks(userContent)
        /\ chunkIndex = 0
        /\ ~isSpeaking /\ ~isInterrupted /\ ~resumeRequested

\* the utterance was edited while a speak call was in flight
C17_Witness ==
    /\ last.op = "edit"
    /\ isSpeaking
    /\ InFlightCount > 0
    /\ Len(chunks) > 1

\* C18: in every reachable state the interrupted flag and the
\* resume-requested flag are not both true
C18_NotInterruptedAndResumeRequested == ~(isInterrupted /\ resumeRequested)

\* an interrupt request was accepted while a speak call was in flight
C18_Witness ==
    /\ last.op = "interrupt" /\ last.accepted
    /\ isInterrupted
    /\ InFlightCount > 0

\* C19: in every reachable state 0 <= chunk index <= length of the current
\* chunk sequence
C19_IndexWithinChunks == 0 <= chunkIndex /\ chunkIndex <= Len(chunks)

\* C20: whenever a speak call issued by the playback loop is in flight the
\* speaking flag is true, so that neither a start request nor a resume
\* request can be accepted, SDK speaking events included
C20_InFlightImpliesSpeaking ==
    InFlightCount > 0 => (isSpeaking /\ ~StartAllowed /\ ~ResumeAllowed)

====
